---- MODULE Spec2Model ----
(***************************************************************************)
(* Attendance state machine of kintai-be (src/src/index.ts): the User and  *)
(* AttendanceLog tables, the day-rollover reconciliation                   *)
(* checkAndResetStateIfNewDay and the handlers POST /stamp,                *)
(* POST /clock_out, GET /status, GET /summary and the login upsert.        *)
(*                                                                         *)
(* An instant is a whole number of hours of local time: instant t lies on  *)
(* calendar day t \div 24 at hour t % 24.  The code only ever looks at the *)
(* hour of an instant, and setHours(h, 0, 0, 0) clears everything below    *)
(* the hour, so the hour is the granularity that decides every branch.     *)
(* Day 0 is Friday 1970-01-30, so days 1, 2, 3 are Saturday 01-31, Sunday  *)
(* 02-01 and Monday 02-02.  tz is the offset of local time from UTC in     *)
(* hours, the TZ setting the process runs under; the response of           *)
(* GET /summary is recorded for each setting.  Durations are in hours.     *)
(***************************************************************************)
EXTENDS Integers, Sequences, FiniteSets, TLC

VARIABLES users, attendanceLogs, last, probe, requests, loginStates, timers

vars == <<users, attendanceLogs, last, probe, requests, loginStates,
          timers>>

----------------------------------------------------------------------------
(* Bounds *)

MaxDay == 2
MaxLog == 4

(* Configuration *)

resetHour == 5

UserIds == {"u1", "u2"}
Clients == {"u1"}
NowHours == {3, 6, 23}
TimeZones == {-5, 0, 9}
NoUser == "none"
LoginStateValues == {"s1", "s2"}
NoLogins == [state \in LoginStateValues |-> NoUser]
Statuses == {"unregistered", "working", "on_break"}
LogTypes == {"work_start", "work_end", "break_start", "break_end"}

Times == {d * 24 + h : d \in 1..MaxDay, h \in NowHours}

----------------------------------------------------------------------------
(* Date arithmetic *)

getDate(t) == t \div 24
getHours(t) == t % 24
setHours(t, h) == getDate(t) * 24 + h
toDateString(t) == getDate(t)

getLogicalDate_Inclusive(timestamp, rh) ==
    IF getHours(timestamp) <= rh
    THEN setHours(timestamp - 24, 0)
    ELSE setHours(timestamp, 0)

getLogicalDate(timestamp, rh) ==
    IF getHours(timestamp) < rh
    THEN setHours(timestamp - 24, 0)
    ELSE setHours(timestamp, 0)

(* Calendar of 1970 *)

MonthLengths == <<31, 28, 31, 30, 31, 30, 31, 31, 30, 31, 30, 31>>

RECURSIVE MonthAndDay(_, _)
MonthAndDay(month, dayOfYear) ==
    IF dayOfYear < MonthLengths[month]
    THEN [month |-> month, day |-> dayOfYear + 1]
    ELSE MonthAndDay(month + 1, dayOfYear - MonthLengths[month])

Calendar(day) == MonthAndDay(1, day + 29)

getDay(t) == (getDate(t) + 33) % 7
getDayOfMonth(t) == Calendar(getDate(t)).day
setDate(t, dayOfMonth) == t + 24 * (dayOfMonth - getDayOfMonth(t))

(* A date key stands for the string YYYY-MM-DD: the number of its day.   *)
toISODate(t, tz) == (t - tz) \div 24
parseISODate(dateStr, tz) == dateStr * 24 + tz
monthOf(dateStr) == Calendar(dateStr).month

----------------------------------------------------------------------------
(* Table access *)

LogsOf(userId) == SelectSeq(attendanceLogs, LAMBDA r : r.userId = userId)

RECURSIVE MaxTimestamp(_)
MaxTimestamp(logs) ==
    IF Len(logs) = 1 THEN logs[1].timestamp
    ELSE LET m == MaxTimestamp(Tail(logs))
         IN IF logs[1].timestamp > m THEN logs[1].timestamp ELSE m

Row_Misfiled(userId, type, timestamp) ==
    [userId |-> CHOOSE u \in UserIds : u # userId,
     type |-> type, timestamp |-> timestamp]

Row(userId, type, timestamp) ==
    [userId |-> userId, type |-> type, timestamp |-> timestamp]

----------------------------------------------------------------------------
(* checkAndResetStateIfNewDay, as functions of the rows it reads *)

IsNewDay_CalendarDate(logs, currentTimestamp) ==
    /\ logs # <<>>
    /\ toDateString(MaxTimestamp(logs)) # toDateString(currentTimestamp)

IsNewDay(logs, currentTimestamp) ==
    /\ logs # <<>>
    /\ toDateString(getLogicalDate(MaxTimestamp(logs), resetHour))
         # toDateString(getLogicalDate(currentTimestamp, resetHour))

newDayStartTime_Now(currentTimestamp) == currentTimestamp

newDayStartTime(currentTimestamp) == setHours(currentTimestamp, resetHour)

ResetRows_AnyStatus(userId, status, logs, currentTimestamp) ==
    IF IsNewDay(logs, currentTimestamp)
    THEN <<Row(userId, "work_start", newDayStartTime(currentTimestamp))>>
    ELSE <<>>

ResetRows_PerDay(userId, status, logs, currentTimestamp) ==
    IF IsNewDay(logs, currentTimestamp) /\ status \in {"working", "on_break"}
    THEN LET gap == toDateString(getLogicalDate(currentTimestamp, resetHour))
                      - toDateString(getLogicalDate(MaxTimestamp(logs), resetHour))
             n == IF gap > 1 THEN gap ELSE 1
         IN [i \in 1..n |->
                Row(userId, "work_start",
                    newDayStartTime(currentTimestamp - 24 * (n - i)))]
    ELSE <<>>

ResetRows(userId, status, logs, currentTimestamp) ==
    IF IsNewDay(logs, currentTimestamp) /\ status \in {"working", "on_break"}
    THEN <<Row(userId, "work_start", newDayStartTime(currentTimestamp))>>
    ELSE <<>>

ResetStatus_AllWorking(status, logs, currentTimestamp) ==
    IF IsNewDay(logs, currentTimestamp) THEN "working" ELSE status

ResetStatus(status, logs, currentTimestamp) ==
    IF IsNewDay(logs, currentTimestamp)
    THEN IF status \in {"working", "on_break"} THEN "working" ELSE "unregistered"
    ELSE status

----------------------------------------------------------------------------
(* Transition tables of the handlers *)

StampType_BreakAgain(status) ==
    CASE status = "unregistered" -> "work_start"
      [] status = "working" -> "break_start"
      [] status = "on_break" -> "break_start"

StampType(status) ==
    CASE status = "unregistered" -> "work_start"
      [] status = "working" -> "break_start"
      [] status = "on_break" -> "break_end"

StampStatus_Toggle(status) ==
    CASE status = "unregistered" -> "working"
      [] status = "working" -> "on_break"
      [] status = "on_break" -> "unregistered"

StampStatus(status) ==
    CASE status = "unregistered" -> "working"
      [] status = "working" -> "on_break"
      [] status = "on_break" -> "working"

StampRows(userId, status, now) == <<Row(userId, StampType(status), now)>>

ClockOutAllowed_WorkingOnly(status) == status = "working"

ClockOutAllowed(status) == status = "working" \/ status = "on_break"

ClockOutRows_Unchecked(userId, status, now) ==
    <<Row(userId, "work_end", now)>>

ClockOutRows(userId, status, now) ==
    IF ClockOutAllowed(status) THEN <<Row(userId, "work_end", now)>> ELSE <<>>

ClockOutStatus(status) ==
    IF ClockOutAllowed(status) THEN "unregistered" ELSE status

----------------------------------------------------------------------------
(* calculateLogsDuration: one pass over the rows in ascending order.     *)
(* dailyTotals maps a date key to hours, lastStartTime is <<>> for null. *)

Get(totals, key) == IF key \in DOMAIN totals THEN totals[key] ELSE 0

Put(totals, key, value) ==
    [k \in DOMAIN totals \cup {key} |-> IF k = key THEN value ELSE totals[k]]

dateKeyOf_Calendar(timestamp, rh, tz) == toISODate(setHours(timestamp, 0), tz)

dateKeyOf(timestamp, rh, tz) == toISODate(getLogicalDate(timestamp, rh), tz)

NoTotals == [k \in {} |-> 0]

AggStep_EndDay(acc, log, rh, tz) ==
    LET time == log.timestamp
        dateKey == dateKeyOf(log.timestamp, rh, tz)
        totals == IF Get(acc.dailyTotals, dateKey) = 0
                  THEN Put(acc.dailyTotals, dateKey, 0)
                  ELSE acc.dailyTotals
    IN IF log.type = "work_start" \/ log.type = "break_end"
       THEN [dailyTotals |-> totals,
             lastStartTime |-> IF acc.lastStartTime = <<>>
                               THEN <<time>> ELSE acc.lastStartTime]
       ELSE IF (log.type = "work_end" \/ log.type = "break_start")
                /\ acc.lastStartTime # <<>>
       THEN [dailyTotals |-> Put(totals, dateKey,
                                 Get(totals, dateKey)
                                   + (time - acc.lastStartTime[1])),
             lastStartTime |-> <<>>]
       ELSE [dailyTotals |-> totals, lastStartTime |-> acc.lastStartTime]

AggStep_Restart(acc, log, rh, tz) ==
    LET time == log.timestamp
        dateKey == dateKeyOf(log.timestamp, rh, tz)
        totals == IF Get(acc.dailyTotals, dateKey) = 0
                  THEN Put(acc.dailyTotals, dateKey, 0)
                  ELSE acc.dailyTotals
    IN IF log.type = "work_start" \/ log.type = "break_end"
       THEN [dailyTotals |-> totals, lastStartTime |-> <<time>>]
       ELSE IF (log.type = "work_end" \/ log.type = "break_start")
                /\ acc.lastStartTime # <<>>
       THEN LET start == acc.lastStartTime[1]
                startDateKey == dateKeyOf(start, rh, tz)
            IN [dailyTotals |-> Put(totals, startDateKey,
                                    Get(totals, startDateKey) + (time - start)),
                lastStartTime |-> <<>>]
       ELSE [dailyTotals |-> totals, lastStartTime |-> acc.lastStartTime]

AggStep_BreakCounts(acc, log, rh, tz) ==
    LET time == log.timestamp
        dateKey == dateKeyOf(log.timestamp, rh, tz)
        totals == IF Get(acc.dailyTotals, dateKey) = 0
                  THEN Put(acc.dailyTotals, dateKey, 0)
                  ELSE acc.dailyTotals
    IN IF log.type = "work_start" /\ acc.lastStartTime = <<>>
       THEN [dailyTotals |-> totals, lastStartTime |-> <<time>>]
       ELSE IF log.type = "work_end" /\ acc.lastStartTime # <<>>
       THEN LET start == acc.lastStartTime[1]
                startDateKey == dateKeyOf(start, rh, tz)
            IN [dailyTotals |-> Put(totals, startDateKey,
                                    Get(totals, startDateKey) + (time - start)),
                lastStartTime |-> <<>>]
       ELSE [dailyTotals |-> totals, lastStartTime |-> acc.lastStartTime]

AggStep(acc, log, rh, tz) ==
    LET time == log.timestamp
        dateKey == dateKeyOf(log.timestamp, rh, tz)
        totals == IF Get(acc.dailyTotals, dateKey) = 0
                  THEN Put(acc.dailyTotals, dateKey, 0)
                  ELSE acc.dailyTotals
    IN IF log.type = "work_start" \/ log.type = "break_end"
       THEN [dailyTotals |-> totals,
             lastStartTime |-> IF acc.lastStartTime = <<>>
                               THEN <<time>> ELSE acc.lastStartTime]
       ELSE IF (log.type = "work_end" \/ log.type = "break_start")
                /\ acc.lastStartTime # <<>>
       THEN LET start == acc.lastStartTime[1]
                startDateKey == dateKeyOf(start, rh, tz)
            IN [dailyTotals |-> Put(totals, startDateKey,
                                    Get(totals, startDateKey) + (time - start)),
                lastStartTime |-> <<>>]
       ELSE [dailyTotals |-> totals, lastStartTime |-> acc.lastStartTime]

RECURSIVE AggScan(_, _, _, _)
AggScan(logs, n, rh, tz) ==
    IF n = 0 THEN [dailyTotals |-> NoTotals, lastStartTime |-> <<>>]
    ELSE AggStep(AggScan(logs, n - 1, rh, tz), logs[n], rh, tz)

calculateLogsDuration_ToReset(logs, rh, tz) ==
    LET acc == AggScan(logs, Len(logs), rh, tz)
    IN IF acc.lastStartTime = <<>> THEN acc.dailyTotals
       ELSE LET start == acc.lastStartTime[1]
                startDateKey == dateKeyOf(start, rh, tz)
            IN Put(acc.dailyTotals, startDateKey,
                   Get(acc.dailyTotals, startDateKey)
                     + (getLogicalDate(start, rh) + 24 + rh - start))

calculateLogsDuration(logs, rh, tz) ==
    AggScan(logs, Len(logs), rh, tz).dailyTotals

----------------------------------------------------------------------------
(* GET /summary: the rows of the user in ascending timestamp order (rows *)
(* of equal timestamp in insertion order), then the roll-ups.            *)

RECURSIVE Insert(_, _)
Insert(sorted, row) ==
    IF sorted = <<>> THEN <<row>>
    ELSE IF sorted[Len(sorted)].timestamp <= row.timestamp
         THEN Append(sorted, row)
         ELSE Append(Insert(SubSeq(sorted, 1, Len(sorted) - 1), row),
                     sorted[Len(sorted)])

RECURSIVE OrderByTimestamp(_)
OrderByTimestamp(logs) ==
    IF logs = <<>> THEN <<>>
    ELSE Insert(OrderByTimestamp(SubSeq(logs, 1, Len(logs) - 1)),
                logs[Len(logs)])

RECURSIVE SumOver(_, _)
SumOver(totals, keys) ==
    IF keys = {} THEN 0
    ELSE LET k == CHOOSE x \in keys : TRUE
         IN totals[k] + SumOver(totals, keys \ {k})

RECURSIVE NewestFirst(_)
NewestFirst(keys) ==
    IF keys = {} THEN <<>>
    ELSE LET k == CHOOSE x \in keys : \A y \in keys : y <= x
         IN <<k>> \o NewestFirst(keys \ {k})

weekKeyOf(dateStr, tz) ==
    LET date == parseISODate(dateStr, tz)
        day == getDay(date)
        diff == getDayOfMonth(date) - day + (IF day = 0 THEN -6 ELSE 1)
        monday == setDate(date, diff)
    IN toISODate(monday, tz)

monthKeyOf(dateStr) == monthOf(dateStr)

(* keyOf maps each date key of dailyTotals to its week or month key. *)
RollUp_Latest(dailyTotals, keyOf) ==
    LET keys == {keyOf[d] : d \in DOMAIN dailyTotals}
    IN [k \in keys |->
           dailyTotals[CHOOSE d \in DOMAIN dailyTotals :
                          /\ keyOf[d] = k
                          /\ \A e \in DOMAIN dailyTotals :
                                keyOf[e] = k => e <= d]]

RollUp(dailyTotals, keyOf) ==
    LET keys == {keyOf[d] : d \in DOMAIN dailyTotals}
    IN [k \in keys |->
           SumOver(dailyTotals, {d \in DOMAIN dailyTotals : keyOf[d] = k})]

Entries(totals) ==
    LET keys == NewestFirst(DOMAIN totals)
    IN [i \in 1..Len(keys) |-> [key |-> keys[i], totalMs |-> totals[keys[i]]]]

SummaryOf(logs, tz) ==
    LET dailyTotals == calculateLogsDuration(logs, resetHour, tz)
    IN [daily |-> Entries(dailyTotals),
        weekly |-> Entries(RollUp(dailyTotals,
                                  [d \in DOMAIN dailyTotals |->
                                      weekKeyOf(d, tz)])),
        monthly |-> Entries(RollUp(dailyTotals,
                                   [d \in DOMAIN dailyTotals |->
                                       monthKeyOf(d)])),
        total |-> SumOver(dailyTotals, DOMAIN dailyTotals)]

SummaryBody(userId) ==
    LET logs == OrderByTimestamp(LogsOf(userId))
    IN [tz \in TimeZones |-> SummaryOf(logs, tz)]

----------------------------------------------------------------------------
(* The daily reports.  sendDiscordDailyReport, started by POST           *)
(* /clock_out, and POST /notify both read the user's rows in ascending   *)
(* order and send today's total; what is modelled is that total.         *)

todayMsOf(logs, now, tz) ==
    LET dailyTotals == calculateLogsDuration(logs, resetHour, tz)
        logicalDate == getLogicalDate(now, resetHour)
        dateKey == toISODate(logicalDate, tz)
    IN Get(dailyTotals, dateKey)

sendDiscordDailyReport(logs, now, tz) ==
    todayMsOf(OrderByTimestamp(logs), now, tz)

notifyTotal(status, logs, now, tz) ==
    LET attendanceLogsAsc == OrderByTimestamp(logs)
        todayMs == todayMsOf(attendanceLogsAsc, now, tz)
        logicalDate == getLogicalDate(now, resetHour)
    IN IF status = "working" /\ attendanceLogsAsc # <<>>
       THEN LET lastLog == attendanceLogsAsc[Len(attendanceLogsAsc)]
                startTime == lastLog.timestamp
                todayResetTime == setHours(logicalDate, resetHour)
                effectiveStart == IF startTime > todayResetTime
                                  THEN startTime ELSE todayResetTime
                effectiveEnd == now
            IN IF effectiveEnd > effectiveStart
               THEN todayMs + (effectiveEnd - effectiveStart)
               ELSE todayMs
       ELSE todayMs

----------------------------------------------------------------------------
(* Request journal: the most recent request and its response.  streak   *)
(* follows a run of consecutive POST /stamp requests of one user that    *)
(* began with status unregistered: the number of rows the user had when  *)
(* the run began, the status left by each request of the run, and        *)
(* whether a request of the run added a reconciliation row.              *)

NoStreak == [base |-> 0, path |-> <<>>, synth |-> FALSE]

NoBody == <<>>

NextStreak(userId, op, pre, post, prelen, synthRows) ==
    IF op # "stamp" THEN NoStreak
    ELSE IF pre = "unregistered"
         THEN [base |-> prelen, path |-> <<post>>, synth |-> synthRows # <<>>]
    ELSE IF last.userId = userId /\ last.op = "stamp"
            /\ Len(last.streak.path) \in {1, 2}
         THEN [base |-> last.streak.base,
               path |-> Append(last.streak.path, post),
               synth |-> last.streak.synth \/ synthRows # <<>>]
    ELSE NoStreak

(* The total a request sends to Discord, for each zone setting. *)
ReportOf(op, code, status, logs, now) ==
    IF op = "clock_out" /\ code = 200
    THEN [tz \in TimeZones |-> sendDiscordDailyReport(logs, now, tz)]
    ELSE IF op = "notify"
    THEN [tz \in TimeZones |-> notifyTotal(status, logs, now, tz)]
    ELSE NoBody

Call(userId, op, now, code, pre, mid, post, prelen, synthRows) ==
    [userId |-> userId, op |-> op, now |-> now, code |-> code,
     pre |-> pre, mid |-> mid, prelen |-> prelen,
     midlen |-> prelen + Len(synthRows),
     repeat |-> last.userId = userId /\ last.op = op /\ last.now = now,
     body |-> NoBody,
     streak |-> NextStreak(userId, op, pre, post, prelen, synthRows)]

NotFound_Upsert(userId, op, now) ==
    /\ users[userId] = NoUser
    /\ last' = Call(userId, op, now, 404, NoUser, NoUser, NoUser,
                    Len(LogsOf(userId)), <<>>)
    /\ users' = [users EXCEPT ![userId] = "unregistered"]
    /\ UNCHANGED <<attendanceLogs, probe, requests, loginStates, timers>>

NotFound(userId, op, now) ==
    /\ users[userId] = NoUser
    /\ last' = Call(userId, op, now, 404, NoUser, NoUser, NoUser,
                    Len(LogsOf(userId)), <<>>)
    /\ UNCHANGED <<users, attendanceLogs, probe, requests, loginStates, timers>>

(* One request of an existing user: reconciliation, then the handler's   *)
(* own rows and status, both chosen by the status read back after        *)
(* reconciliation.                                                       *)
Handle_Rewrite(userId, op, now, code, rows, status) ==
    LET logs == LogsOf(userId)
        pre == users[userId]
        synth == ResetRows(userId, pre, logs, now)
        mid == ResetStatus(pre, logs, now)
        kept == IF synth = <<>> THEN attendanceLogs
                ELSE SelectSeq(attendanceLogs, LAMBDA r : r.userId # userId)
    IN /\ pre # NoUser
       /\ Len(attendanceLogs) + Len(synth) + Len(rows[mid]) <= MaxLog
       /\ attendanceLogs' = kept \o synth \o rows[mid]
       /\ users' = [users EXCEPT ![userId] = status[mid]]
       /\ last' = Call(userId, op, now, code[mid], pre, mid, status[mid],
                       Len(logs), synth)
       /\ UNCHANGED <<probe, requests, loginStates, timers>>

Handle(userId, op, now, code, rows, status) ==
    LET logs == LogsOf(userId)
        pre == users[userId]
        synth == ResetRows(userId, pre, logs, now)
        mid == ResetStatus(pre, logs, now)
    IN /\ pre # NoUser
       /\ Len(attendanceLogs) + Len(synth) + Len(rows[mid]) <= MaxLog
       /\ attendanceLogs' = attendanceLogs \o synth \o rows[mid]
       /\ users' = [users EXCEPT ![userId] = status[mid]]
       /\ last' = [Call(userId, op, now, code[mid], pre, mid, status[mid],
                        Len(logs), synth)
                      EXCEPT !.body = ReportOf(op, code[mid], status[mid],
                                               logs \o synth \o rows[mid],
                                               now)]
       /\ UNCHANGED <<probe, requests, loginStates, timers>>

----------------------------------------------------------------------------
(* Handlers *)

Login_Reset(userId) ==
    /\ users' = [users EXCEPT ![userId] = "unregistered"]
    /\ UNCHANGED <<attendanceLogs, last, probe, requests, loginStates, timers>>

Login(userId) ==
    /\ users' = [users EXCEPT ![userId] =
                     IF @ = NoUser THEN "unregistered" ELSE @]
    /\ UNCHANGED <<attendanceLogs, last, probe, requests, loginStates, timers>>

Stamp(userId, now) ==
    \/ NotFound(userId, "stamp", now)
    \/ Handle(userId, "stamp", now,
              [s \in Statuses |-> 200],
              [s \in Statuses |-> StampRows(userId, s, now)],
              [s \in Statuses |-> StampStatus(s)])

ClockOut(userId, now) ==
    \/ NotFound(userId, "clock_out", now)
    \/ Handle(userId, "clock_out", now,
              [s \in Statuses |-> IF ClockOutAllowed(s) THEN 200 ELSE 400],
              [s \in Statuses |-> ClockOutRows(userId, s, now)],
              [s \in Statuses |-> ClockOutStatus(s)])

GetStatus(userId, now) ==
    \/ NotFound(userId, "status", now)
    \/ Handle(userId, "status", now,
              [s \in Statuses |-> 200],
              [s \in Statuses |-> <<>>],
              [s \in Statuses |-> s])

(* POST /notify with the Discord settings present; posting the message  *)
(* may fail, which is answered 500 after reconciliation has been done.   *)
Notify(userId, now) ==
    \/ NotFound(userId, "notify", now)
    \/ \E code \in {200, 500} :
          Handle(userId, "notify", now,
                 [s \in Statuses |-> code],
                 [s \in Statuses |-> <<>>],
                 [s \in Statuses |-> s])

Summary(userId, now) ==
    /\ last' = [Call(userId, "summary", now, 200, users[userId],
                     users[userId], users[userId], Len(LogsOf(userId)), <<>>)
                   EXCEPT !.body = SummaryBody(userId)]
    /\ UNCHANGED <<users, attendanceLogs, probe, requests, loginStates, timers>>

----------------------------------------------------------------------------
Init ==
    /\ users = [u \in UserIds |-> NoUser]
    /\ attendanceLogs = <<>>
    /\ last = [userId |-> NoUser, op |-> "none", now |-> 0,
               code |-> 0, pre |-> NoUser, mid |-> NoUser, prelen |-> 0,
               midlen |-> 0, repeat |-> FALSE, body |-> NoBody,
               streak |-> NoStreak]
    /\ probe = <<>>
    /\ loginStates = NoLogins
    /\ timers = <<>>
    /\ requests = <<>>

(* The requests of one client: every request carries the id of u1, and   *)
(* the wall clock never runs backwards.                                  *)
Next ==
    \/ \E u \in Clients : Login(u)
    \/ \E u \in Clients, now \in Times : now >= last.now /\ Stamp(u, now)
    \/ \E u \in Clients, now \in Times : now >= last.now /\ ClockOut(u, now)
    \/ \E u \in Clients, now \in Times : now >= last.now /\ GetStatus(u, now)
    \/ \E u \in Clients, now \in Times : now >= last.now /\ Summary(u, now)

Spec == Init /\ [][Next]_vars

----------------------------------------------------------------------------
(* getLogicalDate applied to any instant and any RESET_HOUR of 0..23.    *)
(* probe holds the most recent application.                              *)

ResetHours == 0..23
ProbeTimes == {d * 24 + h : d \in 1..MaxDay, h \in 0..23}

ApplyGetLogicalDate(timestamp, rh) ==
    /\ probe' = <<[timestamp |-> timestamp, resetHour |-> rh,
                   date |-> getLogicalDate(timestamp, rh)]>>
    /\ UNCHANGED <<users, attendanceLogs, last, requests, loginStates, timers>>

NextLogicalDate ==
    \E timestamp \in ProbeTimes, rh \in ResetHours :
        ApplyGetLogicalDate(timestamp, rh)

SpecLogicalDate == Init /\ [][NextLogicalDate]_vars

TypeOK ==
    /\ users \in [UserIds -> Statuses \cup {NoUser}]
    /\ \A i \in 1..Len(attendanceLogs) :
          /\ attendanceLogs[i].userId \in UserIds
          /\ attendanceLogs[i].type \in LogTypes
    /\ Len(attendanceLogs) <= MaxLog
    /\ last.now \in Times \cup {0}

----------------------------------------------------------------------------
(* Views of the most recent request *)

Actor == last.userId
Served == last.op \in {"stamp", "clock_out", "status"} /\ last.pre # NoUser
ActorLogs == LogsOf(Actor)
Before == SubSeq(ActorLogs, 1, last.prelen)
Added == SubSeq(ActorLogs, last.prelen + 1, Len(ActorLogs))
AddedAfterReset == SubSeq(ActorLogs, last.midlen + 1, Len(ActorLogs))
Summarized == last.op = "summary"
SummaryLogs == OrderByTimestamp(ActorLogs)
Scan(n, tz) == AggScan(SummaryLogs, n, resetHour, tz)
Opener(n) == SummaryLogs[n].type \in {"work_start", "break_end"}
Closer(n) == SummaryLogs[n].type \in {"work_end", "break_start"}
IsOpen(n, tz) == Scan(n, tz).lastStartTime # <<>>
RECURSIVE SumOfEntries(_)
SumOfEntries(entries) ==
    IF entries = <<>> THEN 0
    ELSE entries[1].totalMs + SumOfEntries(Tail(entries))
Worked(entries) == {i \in 1..Len(entries) : entries[i].totalMs # 0}
SameTotals(a, b) ==
    \A key \in DOMAIN a \cup DOMAIN b : Get(a, key) = Get(b, key)
Types(logs) == [i \in 1..Len(logs) |-> logs[i].type]
LogicalDay(t) == toDateString(getLogicalDate(t, resetHour))
DayChanged == Before # <<>> /\ LogicalDay(MaxTimestamp(Before)) # LogicalDay(last.now)
StreakAdded == SubSeq(ActorLogs, last.streak.base + 1, Len(ActorLogs))
ThreeStamps == last.op = "stamp" /\ Len(last.streak.path) = 3
StampCycle ==
    /\ last.streak.path = <<"working", "on_break", "working">>
    /\ users[Actor] = "working"
    /\ Types(StreakAdded) = <<"work_start", "break_start", "break_end">>

----------------------------------------------------------------------------
(* C1 *)

(* C1 as stated: three consecutive stamp calls from Unregistered move the *)
(* status Unregistered -> Working -> OnBreak -> Working and the log gains *)
(* exactly WorkStart, BreakStart, BreakEnd, whatever the times of the     *)
(* three calls.                                                           *)
C1_AsStated == ThreeStamps => StampCycle

(* C1 amended: three consecutive stamp calls from Unregistered, none of   *)
(* which adds a reconciliation entry, move the status Unregistered ->     *)
(* Working -> OnBreak -> Working and the log gains exactly WorkStart,     *)
(* BreakStart, BreakEnd in that order.                                    *)
C1_StampCycle == (ThreeStamps /\ ~last.streak.synth) => StampCycle

C1_Witness ==
    /\ ThreeStamps
    /\ ~last.streak.synth
    /\ StreakAdded[1].timestamp < last.now
    /\ users[Actor] = "working"

----------------------------------------------------------------------------
(* C2: every stamp call of an existing actor is answered 200, appends    *)
(* exactly one entry timestamped now whose kind is fixed by the status    *)
(* held after reconciliation, and sets the status to the next state of    *)
(* the table.                                                             *)
C2_StampTable ==
    (last.op = "stamp" /\ last.pre # NoUser) =>
        /\ last.code = 200
        /\ Len(AddedAfterReset) = 1
        /\ AddedAfterReset[1].timestamp = last.now
        /\ last.mid = "unregistered" =>
              AddedAfterReset[1].type = "work_start" /\ users[Actor] = "working"
        /\ last.mid = "working" =>
              AddedAfterReset[1].type = "break_start" /\ users[Actor] = "on_break"
        /\ last.mid = "on_break" =>
              AddedAfterReset[1].type = "break_end" /\ users[Actor] = "working"

C2_Witness ==
    /\ last.op = "stamp"
    /\ last.pre = "on_break"
    /\ last.mid = "working"
    /\ last.midlen = last.prelen + 1
    /\ users[Actor] = "on_break"

----------------------------------------------------------------------------
(* C3: a clockOut call made while the reconciled status is Working or    *)
(* OnBreak appends exactly one WorkEnd entry timestamped now and leaves   *)
(* the status Unregistered.                                               *)
C3_ClockOut ==
    (last.op = "clock_out" /\ last.mid \in {"working", "on_break"}) =>
        /\ AddedAfterReset = <<Row(Actor, "work_end", last.now)>>
        /\ users[Actor] = "unregistered"
        /\ last.code = 200

C3_Witness ==
    /\ last.op = "clock_out"
    /\ last.mid = "on_break"
    /\ users[Actor] = "unregistered"
    /\ Len(ActorLogs) = last.prelen + 1

----------------------------------------------------------------------------
(* C4: a clockOut call made while the status is Unregistered is answered *)
(* with an error, appends no entry and leaves the status Unregistered,    *)
(* also when now lies on a later logical day than the last entry.         *)
C4_ClockOutUnregistered ==
    (last.op = "clock_out" /\ last.pre = "unregistered") =>
        /\ last.code = 400
        /\ Added = <<>>
        /\ users[Actor] = "unregistered"

C4_Witness ==
    /\ last.op = "clock_out"
    /\ last.pre = "unregistered"
    /\ DayChanged
    /\ last.code = 400

----------------------------------------------------------------------------
(* C5: when reconciliation runs with status Working or OnBreak and the   *)
(* logical day of the chronologically last entry differs from the logical *)
(* day of now, it appends a WorkStart timestamped at the reset hour of    *)
(* the logical day of now and sets the status to Working, for every now.  *)
C5_SyntheticAtLogicalDay ==
    (Served /\ last.pre \in {"working", "on_break"} /\ DayChanged) =>
        /\ last.midlen = last.prelen + 1
        /\ Added[1] = Row(Actor, "work_start",
                          getLogicalDate(last.now, resetHour) + resetHour)
        /\ last.mid = "working"

----------------------------------------------------------------------------
(* C6: a getStatus call that repeats the previous getStatus call of the  *)
(* same actor with the same now leaves log and status as the first call   *)
(* left them.                                                             *)
C6_GetStatusIdempotent ==
    (last.op = "status" /\ last.repeat /\ last.pre # NoUser) =>
        /\ Added = <<>>
        /\ users[Actor] = last.pre

----------------------------------------------------------------------------
(* C7: the entry with the greatest timestamp of an actor's log is        *)
(* consistent with the actor's status: Working with WorkStart or          *)
(* BreakEnd, OnBreak with BreakStart, Unregistered with an empty log or   *)
(* WorkEnd.  Among entries of equal timestamp any one may be that entry.  *)
Latest(logs) ==
    {logs[i].type : i \in {j \in 1..Len(logs) :
                              logs[j].timestamp = MaxTimestamp(logs)}}

C7_LastEntryMatchesStatus ==
    \A u \in UserIds :
        /\ users[u] = "working" =>
              /\ LogsOf(u) # <<>>
              /\ Latest(LogsOf(u)) \cap {"work_start", "break_end"} # {}
        /\ users[u] = "on_break" =>
              /\ LogsOf(u) # <<>>
              /\ "break_start" \in Latest(LogsOf(u))
        /\ users[u] = "unregistered" =>
              \/ LogsOf(u) = <<>>
              \/ "work_end" \in Latest(LogsOf(u))

----------------------------------------------------------------------------
(* C8: reconciliation changes nothing when the actor's log is empty or   *)
(* the logical day of the chronologically last entry equals the logical   *)
(* day of now; a getStatus call then leaves status and log unchanged.     *)
C8_NoResetSameDay ==
    (Served /\ ~DayChanged) =>
        /\ last.mid = last.pre
        /\ last.midlen = last.prelen
        /\ last.op = "status" => Added = <<>> /\ users[Actor] = last.pre
        /\ last.op = "stamp" => Len(Added) = 1 /\ Added[1].timestamp = last.now
        /\ last.op = "clock_out" => \A i \in 1..Len(Added) : Added[i].type = "work_end"

C8_Witness ==
    /\ last.op = "status"
    /\ last.pre = "working"
    /\ Before # <<>>
    /\ ~DayChanged
    /\ getDate(MaxTimestamp(Before)) # getDate(last.now)

----------------------------------------------------------------------------
(* C9: when reconciliation runs with status Unregistered and the logical *)
(* day has changed since the last entry, it appends no entry and the      *)
(* status is Unregistered afterwards.                                     *)
C9_ResetUnregistered ==
    (Served /\ last.pre = "unregistered" /\ DayChanged) =>
        /\ last.mid = "unregistered"
        /\ last.midlen = last.prelen
        /\ last.op = "status" => Added = <<>> /\ users[Actor] = "unregistered"
        /\ last.op = "stamp" => Added = <<Row(Actor, "work_start", last.now)>>
        /\ last.op = "clock_out" => Added = <<>>

C9_Witness ==
    /\ last.op = "status"
    /\ last.pre = "unregistered"
    /\ DayChanged
    /\ users[Actor] = "unregistered"

----------------------------------------------------------------------------
(* C10: one stamp, clockOut or getStatus call appends at most one        *)
(* reconciliation WorkStart entry, however many logical days lie between  *)
(* the last entry and now.                                                *)
OwnRows ==
    CASE last.op = "stamp" -> 1
      [] last.op = "clock_out" -> IF last.code = 200 THEN 1 ELSE 0
      [] last.op = "status" -> 0

C10_OneSyntheticEntry ==
    Served =>
        /\ last.midlen - last.prelen <= 1
        /\ Len(Added) - OwnRows <= 1

C10_Witness ==
    /\ last.op = "status"
    /\ Before # <<>>
    /\ LogicalDay(last.now) - LogicalDay(MaxTimestamp(Before)) >= 2
    /\ Len(Added) = 1
    /\ Added[1].type = "work_start"

----------------------------------------------------------------------------
(* GET /summary over the tables left by migrate-json-to-db.ts: the rows  *)
(* of the file in ascending order and any of the four types, the status  *)
(* the file's last row leaves.  The instants are Saturday 01-31 09:00    *)
(* and 17:00, Sunday 02-01 03:00 and 09:00, and Monday 02-02 09:00.      *)

MaxRows == 4
SummaryClock == {<<1, 9>>, <<1, 17>>, <<2, 3>>, <<2, 9>>, <<3, 9>>}
SummaryTimes == {c[1] * 24 + c[2] : c \in SummaryClock}

RECURSIVE AscendingLogs(_, _)
AscendingLogs(userId, n) ==
    IF n = 0 THEN {<<>>}
    ELSE LET shorter == AscendingLogs(userId, n - 1)
         IN shorter \cup
            UNION {{Append(logs, Row(userId, type, timestamp)) :
                       type \in LogTypes,
                       timestamp \in {t \in SummaryTimes :
                                         logs = <<>>
                                         \/ t > logs[Len(logs)].timestamp}} :
                   logs \in shorter}

currentUserStatus(logs) ==
    IF logs = <<>> THEN "unregistered"
    ELSE CASE logs[Len(logs)].type \in {"work_start", "break_end"} -> "working"
           [] logs[Len(logs)].type = "break_start" -> "on_break"
           [] logs[Len(logs)].type = "work_end" -> "unregistered"

InitSummary ==
    /\ attendanceLogs \in UNION {AscendingLogs(u, MaxRows) : u \in Clients}
    /\ users = [u \in UserIds |->
                   IF u \in Clients THEN currentUserStatus(attendanceLogs)
                   ELSE NoUser]
    /\ last = [userId |-> NoUser, op |-> "none", now |-> 0, code |-> 0,
               pre |-> NoUser, mid |-> NoUser, prelen |-> 0,
               midlen |-> 0, repeat |-> FALSE, body |-> NoBody,
               streak |-> NoStreak]
    /\ probe = <<>>
    /\ loginStates = NoLogins
    /\ timers = <<>>
    /\ requests = <<>>

(* The summary is requested once the last instant of the file has come. *)
NextSummary ==
    \E u \in Clients, now \in SummaryTimes :
        /\ \A t \in SummaryTimes : t <= now
        /\ Summary(u, now)

SpecSummary == InitSummary /\ [][NextSummary]_vars

----------------------------------------------------------------------------
(* Two requests of one user in flight at once.  A handler runs from one  *)
(* await to the next without interruption, so each query is one step and *)
(* the steps of the two requests interleave freely; nothing in the       *)
(* handlers locks the user or opens a transaction.  requests.start is    *)
(* the content of the tables when both requests arrived, at the same     *)
(* hour; requests.pending[r] is the position of request r and the        *)
(* user.status it last read.                                             *)

Ops == {"stamp", "clock_out", "status"}
RequestIds == {1, 2}

StartTables(userId, t) ==
    {[status |-> "unregistered", logs |-> <<>>],
     [status |-> "working", logs |-> <<Row(userId, "work_start", t)>>],
     [status |-> "on_break",
      logs |-> <<Row(userId, "work_start", t), Row(userId, "break_start", t)>>],
     [status |-> "unregistered",
      logs |-> <<Row(userId, "work_start", t), Row(userId, "work_end", t)>>]}

InitConcurrent ==
    /\ \E u \in Clients, t \in Times, now \in Times, ops \in [RequestIds -> Ops] :
       \E start \in StartTables(u, t) :
          /\ now >= t
          /\ users = [v \in UserIds |-> IF v = u THEN start.status ELSE NoUser]
          /\ attendanceLogs = start.logs
          /\ requests = [start |-> start,
                         pending |-> [r \in RequestIds |->
                                         [userId |-> u, op |-> ops[r],
                                          now |-> now, pc |-> "findUser",
                                          status |-> NoUser]]]
    /\ last = [userId |-> NoUser, op |-> "none", now |-> 0, code |-> 0,
               pre |-> NoUser, mid |-> NoUser, prelen |-> 0,
               midlen |-> 0, repeat |-> FALSE, body |-> NoBody,
               streak |-> NoStreak]
    /\ probe = <<>>
    /\ loginStates = NoLogins
    /\ timers = <<>>

At(r, pc) == requests.pending[r].pc = pc

Goto(r, pc, status) ==
    requests' = [requests EXCEPT !.pending[r].pc = pc,
                                 !.pending[r].status = status]

(* checkAndResetStateIfNewDay: user = findUnique *)
FindUser(r) ==
    LET req == requests.pending[r]
    IN /\ At(r, "findUser")
       /\ Goto(r, IF users[req.userId] = NoUser THEN "findUserAgain"
                  ELSE "findLastLog", users[req.userId])
       /\ UNCHANGED <<users, attendanceLogs, last, probe, loginStates, timers>>

(* checkAndResetStateIfNewDay: lastLog = findFirst, then the branches up *)
(* to the next query                                                     *)
FindLastLog(r) ==
    LET req == requests.pending[r]
        logs == LogsOf(req.userId)
    IN /\ At(r, "findLastLog")
       /\ Goto(r, IF ResetRows(req.userId, req.status, logs, req.now) # <<>>
                  THEN "createResetLog"
                  ELSE IF ResetStatus(req.status, logs, req.now) # req.status
                       THEN "updateResetStatus"
                       ELSE "findUserAgain", req.status)
       /\ UNCHANGED <<users, attendanceLogs, last, probe, loginStates, timers>>

(* checkAndResetStateIfNewDay: attendanceLog.create of the work_start *)
CreateResetLog(r) ==
    LET req == requests.pending[r]
    IN /\ At(r, "createResetLog")
       /\ attendanceLogs' =
             Append(attendanceLogs,
                    Row(req.userId, "work_start", newDayStartTime(req.now)))
       /\ Goto(r, "updateResetStatus", req.status)
       /\ UNCHANGED <<users, last, probe, loginStates, timers>>

(* checkAndResetStateIfNewDay: user.update *)
UpdateResetStatus(r) ==
    LET req == requests.pending[r]
    IN /\ At(r, "updateResetStatus")
       /\ users' = [users EXCEPT ![req.userId] =
                        IF req.status \in {"working", "on_break"}
                        THEN "working" ELSE "unregistered"]
       /\ Goto(r, "findUserAgain", req.status)
       /\ UNCHANGED <<attendanceLogs, last, probe, loginStates, timers>>

(* the handler: user = findUnique, then the branches up to the next      *)
(* query or the response                                                 *)
FindUserAgain(r) ==
    LET req == requests.pending[r]
        status == users[req.userId]
    IN /\ At(r, "findUserAgain")
       /\ Goto(r, CASE status = NoUser -> "done"
                    [] req.op = "stamp" -> "createLog"
                    [] req.op = "clock_out" ->
                         IF ClockOutAllowed(status) THEN "updateStatus"
                         ELSE "done"
                    [] req.op = "status" -> "done", status)
       /\ UNCHANGED <<users, attendanceLogs, last, probe, loginStates, timers>>

(* the handler: attendanceLog.create, before user.update in POST /stamp  *)
(* and after it in POST /clock_out                                       *)
CreateLog(r) ==
    LET req == requests.pending[r]
    IN /\ At(r, "createLog")
       /\ attendanceLogs' =
             attendanceLogs \o
               (IF req.op = "stamp"
                THEN StampRows(req.userId, req.status, req.now)
                ELSE ClockOutRows(req.userId, req.status, req.now))
       /\ Goto(r, IF req.op = "stamp" THEN "updateStatus" ELSE "done",
               req.status)
       /\ UNCHANGED <<users, last, probe, loginStates, timers>>

(* the handler: user.update *)
UpdateStatus(r) ==
    LET req == requests.pending[r]
    IN /\ At(r, "updateStatus")
       /\ users' = [users EXCEPT ![req.userId] =
                        IF req.op = "stamp" THEN StampStatus(req.status)
                        ELSE ClockOutStatus(req.status)]
       /\ Goto(r, IF req.op = "stamp" THEN "done" ELSE "createLog",
               req.status)
       /\ UNCHANGED <<attendanceLogs, last, probe, loginStates, timers>>

NextConcurrent ==
    \/ \E r \in RequestIds : FindUser(r)
    \/ \E r \in RequestIds : FindLastLog(r)
    \/ \E r \in RequestIds : CreateResetLog(r)
    \/ \E r \in RequestIds : UpdateResetStatus(r)
    \/ \E r \in RequestIds : FindUserAgain(r)
    \/ \E r \in RequestIds : CreateLog(r)
    \/ \E r \in RequestIds : UpdateStatus(r)

SpecConcurrent == InitConcurrent /\ [][NextConcurrent]_vars

----------------------------------------------------------------------------
(* One request whose writes may fail.  A rejected Prisma write throws    *)
(* out of the async handler: the request ends where it is and what was   *)
(* written before stays written, since no write is inside a transaction. *)

FailingIds == {1}
WriteSteps ==
    {"createResetLog", "updateResetStatus", "createLog", "updateStatus"}

InitFailure ==
    /\ \E u \in Clients, t \in Times, now \in Times, op \in Ops :
       \E start \in StartTables(u, t) :
          /\ now >= t
          /\ users = [v \in UserIds |-> IF v = u THEN start.status ELSE NoUser]
          /\ attendanceLogs = start.logs
          /\ requests = [start |-> start,
                         pending |-> [r \in FailingIds |->
                                         [userId |-> u, op |-> op,
                                          now |-> now, pc |-> "findUser",
                                          status |-> NoUser]]]
    /\ last = [userId |-> NoUser, op |-> "none", now |-> 0, code |-> 0,
               pre |-> NoUser, mid |-> NoUser, prelen |-> 0,
               midlen |-> 0, repeat |-> FALSE, body |-> NoBody,
               streak |-> NoStreak]
    /\ probe = <<>>
    /\ loginStates = NoLogins
    /\ timers = <<>>

Fail(r) ==
    /\ requests.pending[r].pc \in WriteSteps
    /\ Goto(r, "failed", requests.pending[r].status)
    /\ UNCHANGED <<users, attendanceLogs, last, probe, loginStates, timers>>

NextFailure ==
    \/ \E r \in FailingIds : FindUser(r)
    \/ \E r \in FailingIds : FindLastLog(r)
    \/ \E r \in FailingIds : CreateResetLog(r)
    \/ \E r \in FailingIds : UpdateResetStatus(r)
    \/ \E r \in FailingIds : FindUserAgain(r)
    \/ \E r \in FailingIds : CreateLog(r)
    \/ \E r \in FailingIds : UpdateStatus(r)
    \/ \E r \in FailingIds : Fail(r)

SpecFailure == InitFailure /\ [][NextFailure]_vars

----------------------------------------------------------------------------
(* The requests of two clients, any of whom may or may not have logged   *)
(* in, served one at a time in any order.                                *)

ActorHours == {6}
ActorTimes == {d * 24 + h : d \in 1..MaxDay, h \in ActorHours}

NextActors ==
    \/ \E u \in UserIds : Login(u)
    \/ \E u \in UserIds, now \in ActorTimes : now >= last.now /\ Stamp(u, now)
    \/ \E u \in UserIds, now \in ActorTimes :
          now >= last.now /\ ClockOut(u, now)
    \/ \E u \in UserIds, now \in ActorTimes :
          now >= last.now /\ GetStatus(u, now)
    \/ \E u \in UserIds, now \in ActorTimes :
          now >= last.now /\ Summary(u, now)

SpecActors == Init /\ [][NextActors]_vars

----------------------------------------------------------------------------
(* The requests of one client that end in a daily report: stamps and     *)
(* clock-outs, whose report is sent at once, and POST /notify.           *)

NextReport ==
    \/ \E u \in Clients : Login(u)
    \/ \E u \in Clients, now \in Times : now >= last.now /\ Stamp(u, now)
    \/ \E u \in Clients, now \in Times : now >= last.now /\ ClockOut(u, now)
    \/ \E u \in Clients, now \in Times : now >= last.now /\ Notify(u, now)

SpecReport == Init /\ [][NextReport]_vars

----------------------------------------------------------------------------
(* migrate-json-to-db.ts: one run of main over one legacy state file.   *)
(* probe holds the file and the number of completed runs.  A timestamp   *)
(* of the file is ISO 8601 text: a clock reading and the offset of the   *)
(* text's zone ahead of the zone in which the model counts its hours.    *)
(* The file's entries are at full hours that no request arrives at: a    *)
(* handler's own row carries the request's millisecond, and only the     *)
(* rows of reconciliation, set to resetHour:00:00.000, can carry the     *)
(* timestamp of an entry of the file.  A run reads a file whose entries  *)
(* are not later than the clock at the run.                              *)

MaxFile == 2
MaxRuns == 3
FileTypes == {"work_start", "work_end"}
FileStamps == {[clock |-> 29, ahead |-> 0], [clock |-> 53, ahead |-> 0],
               [clock |-> 62, ahead |-> 9]}
FileStatuses == {"unregistered", "working"}
MigrateTimes == {27, 51, 54}

parseTimestamp(text) == text.clock - text.ahead

FileLogs ==
    UNION {[1..n -> [type : FileTypes, timestamp : FileStamps]] :
             n \in 0..MaxFile}

Files ==
    [discordUser : Clients, currentUserStatus : FileStatuses,
     attendanceLog : FileLogs, runs : {0}]

exists(table, userId, log) ==
    \E i \in 1..Len(table) :
        /\ table[i].userId = userId
        /\ table[i].type = log.type
        /\ table[i].timestamp = parseTimestamp(log.timestamp)

RECURSIVE ImportLogs(_, _, _, _)
ImportLogs(table, userId, attendanceLog, n) ==
    IF n = 0 THEN table
    ELSE LET done == ImportLogs(table, userId, attendanceLog, n - 1)
             log == attendanceLog[n]
         IN IF exists(done, userId, log) THEN done
            ELSE Append(done, Row(userId, log.type,
                                  parseTimestamp(log.timestamp)))

Migrate(now) ==
    LET data == probe[1]
        userId == data.discordUser
    IN /\ data.runs < MaxRuns
       /\ \A n \in 1..Len(data.attendanceLog) :
              parseTimestamp(data.attendanceLog[n].timestamp) <= now
       /\ users' = [users EXCEPT ![userId] = data.currentUserStatus]
       /\ attendanceLogs' = ImportLogs(attendanceLogs, userId,
                                       data.attendanceLog,
                                       Len(data.attendanceLog))
       /\ last' = Call(userId, "migrate", now, 0, users[userId],
                       users[userId], data.currentUserStatus,
                       Len(LogsOf(userId)), <<>>)
       /\ probe' = <<[data EXCEPT !.runs = @ + 1]>>
       /\ UNCHANGED <<requests, loginStates, timers>>

InitMigrate ==
    /\ users = [u \in UserIds |-> NoUser]
    /\ attendanceLogs = <<>>
    /\ last = [userId |-> NoUser, op |-> "none", now |-> 0,
               code |-> 0, pre |-> NoUser, mid |-> NoUser, prelen |-> 0,
               midlen |-> 0, repeat |-> FALSE, body |-> NoBody,
               streak |-> NoStreak]
    /\ \E data \in Files : probe = <<data>>
    /\ loginStates = NoLogins
    /\ timers = <<>>
    /\ requests = <<>>

(* The migration run any number of times on a database that the server  *)
(* is also using, one request or run at a time, the clock never running  *)
(* backwards.                                                            *)
NextMigrate ==
    \/ \E u \in Clients : Login(u)
    \/ \E u \in Clients, now \in MigrateTimes :
          now >= last.now /\ Stamp(u, now)
    \/ \E u \in Clients, now \in MigrateTimes :
          now >= last.now /\ GetStatus(u, now)
    \/ \E now \in MigrateTimes : now >= last.now /\ Migrate(now)

SpecMigrate == InitMigrate /\ [][NextMigrate]_vars

----------------------------------------------------------------------------
(* Login states (src/unnamed/part_002).  The callback of a login that    *)
(* carried a state value records state -> user id in loginStates and     *)
(* starts a timer that deletes the key after five minutes; GET           *)
(* /auth/me/:state hands the user out and deletes the key.  In this      *)
(* part the clock of the journal counts minutes.  timers holds the       *)
(* pending timeouts in the order they were started, which is the order   *)
(* they fall due; probe keeps, for each state value, when a login last   *)
(* recorded it and whether it was handed out since.                      *)

ExpiryMinutes == 5
MaxClock == 7
MaxTimers == 2
Minutes == 0..MaxClock
NoToken == [issued |-> -1, redeemed |-> FALSE]

(* The event loop runs a timeout before the clock passes its minute. *)
NoneOverdue(now) == \A i \in 1..Len(timers) : timers[i].due >= now

Callback(state, userId, now) ==
    /\ NoneOverdue(now)
    /\ Len(timers) < MaxTimers
    /\ users' = [users EXCEPT ![userId] =
                     IF @ = NoUser THEN "unregistered" ELSE @]
    /\ loginStates' = [loginStates EXCEPT ![state] = userId]
    /\ timers' = Append(timers, [state |-> state, due |-> now + ExpiryMinutes])
    /\ last' = [Call(userId, "callback", now, 200, users[userId],
                     users[userId], users'[userId], Len(LogsOf(userId)), <<>>)
                  EXCEPT !.body = <<state>>]
    /\ probe' = [probe EXCEPT ![state] = [issued |-> now, redeemed |-> FALSE]]
    /\ UNCHANGED <<attendanceLogs, requests>>

Timeout ==
    /\ timers # <<>>
    /\ Head(timers).due <= last.now
    /\ loginStates' = [loginStates EXCEPT ![Head(timers).state] = NoUser]
    /\ timers' = Tail(timers)
    /\ last' = [Call(NoUser, "timeout", last.now, 0, NoUser, NoUser, NoUser,
                     0, <<>>)
                  EXCEPT !.body = <<Head(timers).state>>]
    /\ UNCHANGED <<users, attendanceLogs, probe, requests>>

AuthMe(state, now) ==
    LET userId == loginStates[state]
        found == userId # NoUser /\ users[userId] # NoUser
    IN /\ NoneOverdue(now)
       /\ loginStates' = IF found THEN [loginStates EXCEPT ![state] = NoUser]
                         ELSE loginStates
       /\ last' = [Call(userId, "me", now, IF found THEN 200 ELSE 404,
                        NoUser, NoUser, NoUser, 0, <<>>)
                     EXCEPT !.body = <<state>>]
       /\ probe' = IF found THEN [probe EXCEPT ![state].redeemed = TRUE]
                   ELSE probe
       /\ UNCHANGED <<users, attendanceLogs, requests, timers>>

InitLogin ==
    /\ users = [u \in UserIds |-> NoUser]
    /\ attendanceLogs = <<>>
    /\ last = [userId |-> NoUser, op |-> "none", now |-> 0,
               code |-> 0, pre |-> NoUser, mid |-> NoUser, prelen |-> 0,
               midlen |-> 0, repeat |-> FALSE, body |-> NoBody,
               streak |-> NoStreak]
    /\ probe = [state \in LoginStateValues |-> NoToken]
    /\ requests = <<>>
    /\ loginStates = NoLogins
    /\ timers = <<>>

NextLogin ==
    \/ \E state \in LoginStateValues, u \in UserIds, now \in Minutes :
          now >= last.now /\ Callback(state, u, now)
    \/ \E state \in LoginStateValues, now \in Minutes :
          now >= last.now /\ AuthMe(state, now)
    \/ Timeout

SpecLogin == InitLogin /\ [][NextLogin]_vars

----------------------------------------------------------------------------
(* C11: for every instant and every reset hour of 0..23, getLogicalDate  *)
(* is midnight of the calendar date before the instant's when the hour   *)
(* of the instant is less than the reset hour and midnight of the        *)
(* instant's calendar date otherwise; with reset hour 0 it is always the *)
(* instant's calendar date.                                              *)
C11_LogicalDate ==
    \A i \in DOMAIN probe :
        /\ getHours(probe[i].date) = 0
        /\ getHours(probe[i].timestamp) < probe[i].resetHour
              => toDateString(probe[i].date)
                   = toDateString(probe[i].timestamp) - 1
        /\ getHours(probe[i].timestamp) >= probe[i].resetHour
              => toDateString(probe[i].date) = toDateString(probe[i].timestamp)
        /\ probe[i].resetHour = 0
              => toDateString(probe[i].date) = toDateString(probe[i].timestamp)

C11_Witness ==
    /\ probe # <<>>
    /\ probe[1].resetHour = 5
    /\ getHours(probe[1].timestamp) = 4
    /\ toDateString(probe[1].date) = toDateString(probe[1].timestamp) - 1

----------------------------------------------------------------------------
(* C12: when the scan meets a work_end or break_start while an interval  *)
(* is open, the whole duration (closing timestamp minus opening          *)
(* timestamp) is added to the total of the logical day of the opening    *)
(* timestamp, no other day's total changes, and the open marker is       *)
(* cleared: the interval is never split over the days it spans.          *)
C12_CloseCreditsStartDay ==
    Summarized =>
        \A tz \in TimeZones, n \in 1..Len(SummaryLogs) :
            (Closer(n) /\ IsOpen(n - 1, tz)) =>
                LET before == Scan(n - 1, tz)
                    after == Scan(n, tz)
                    start == before.lastStartTime[1]
                    startKey == dateKeyOf(start, resetHour, tz)
                IN /\ Get(after.dailyTotals, startKey)
                        = Get(before.dailyTotals, startKey)
                            + (SummaryLogs[n].timestamp - start)
                   /\ \A key \in DOMAIN after.dailyTotals \ {startKey} :
                          Get(after.dailyTotals, key)
                            = Get(before.dailyTotals, key)
                   /\ after.lastStartTime = <<>>

C12_Witness ==
    /\ Summarized
    /\ Len(SummaryLogs) = 2
    /\ Opener(1) /\ Closer(2)
    /\ LogicalDay(SummaryLogs[1].timestamp)
         # LogicalDay(SummaryLogs[2].timestamp)
    /\ \A tz \in TimeZones :
          last.body[tz].total
            = SummaryLogs[2].timestamp - SummaryLogs[1].timestamp

----------------------------------------------------------------------------
(* C13 *)

(* A status query at 06:00 by an actor who is working and whose last    *)
(* entry is a work_start at 23:00 of the day before.                     *)
Rollover0600 ==
    /\ last.op = "status"
    /\ last.pre = "working"
    /\ Before # <<>>
    /\ Latest(Before) = {"work_start"}
    /\ getHours(MaxTimestamp(Before)) = 23
    /\ last.now = MaxTimestamp(Before) + 7

RolloverAppended ==
    /\ Added = <<Row(Actor, "work_start", setHours(last.now, resetHour))>>
    /\ users[Actor] = "working"

ScanBefore(tz) ==
    AggScan(OrderByTimestamp(Before), Len(Before), resetHour, tz)
TotalsBefore(tz) == ScanBefore(tz).dailyTotals

(* C13 as stated: reconciliation appends work_start at 05:00 and keeps   *)
(* the status working; aggregating the resulting log credits the day of  *)
(* the 23:00 entry with exactly the time from 23:00 to 05:00, and the    *)
(* scan ends with an interval opened at 05:00.                           *)
C13_AsStated ==
    Rollover0600 =>
        /\ RolloverAppended
        /\ \A tz \in TimeZones :
              LET start == MaxTimestamp(Before)
                  dayD == dateKeyOf(start, resetHour, tz)
                  after == Scan(Len(SummaryLogs), tz)
              IN /\ Get(after.dailyTotals, dayD)
                      = Get(TotalsBefore(tz), dayD)
                          + (setHours(last.now, resetHour) - start)
                 /\ after.lastStartTime = <<setHours(last.now, resetHour)>>

(* C13 amended: reconciliation appends work_start at 05:00 and keeps the *)
(* status working; aggregating the resulting log credits no day with any *)
(* part of the open interval (every total is what it was before the     *)
(* call), and the scan ends with the interval that was open before the   *)
(* call, begun at 23:00 or earlier, still open: the appended work_start  *)
(* is ignored.                                                           *)
C13_RolloverKeepsInterval ==
    Rollover0600 =>
        /\ RolloverAppended
        /\ \A tz \in TimeZones :
              LET after == Scan(Len(SummaryLogs), tz)
              IN /\ SameTotals(after.dailyTotals, TotalsBefore(tz))
                 /\ after.lastStartTime = ScanBefore(tz).lastStartTime
                 /\ after.lastStartTime # <<>>
                 /\ after.lastStartTime[1] <= MaxTimestamp(Before)

C13_Witness ==
    /\ Rollover0600
    /\ RolloverAppended
    /\ Len(ActorLogs) = 2
    /\ \A tz \in TimeZones :
          Scan(2, tz).lastStartTime = <<MaxTimestamp(Before)>>

----------------------------------------------------------------------------
(* C14: in every summary the daily totals, the weekly totals and the     *)
(* monthly totals each add up to the grand total.                        *)
C14_SumsEqualTotal ==
    Summarized =>
        \A tz \in TimeZones :
            /\ SumOfEntries(last.body[tz].daily) = last.body[tz].total
            /\ SumOfEntries(last.body[tz].weekly) = last.body[tz].total
            /\ SumOfEntries(last.body[tz].monthly) = last.body[tz].total

C14_Witness ==
    /\ Summarized
    /\ \E tz \in TimeZones :
          /\ Cardinality(Worked(last.body[tz].daily)) = 2
          /\ Len(last.body[tz].weekly) = 1
          /\ Len(last.body[tz].monthly) = 2
          /\ last.body[tz].total > 0

----------------------------------------------------------------------------
(* C15: for a log of one work_start and one later work_end on the same   *)
(* logical day, that day's total is exactly the difference of the two    *)
(* timestamps, and the total of its week and the total of its month are  *)
(* that same amount.                                                     *)
OneInterval ==
    /\ Summarized
    /\ Types(SummaryLogs) = <<"work_start", "work_end">>
    /\ LogicalDay(SummaryLogs[1].timestamp)
         = LogicalDay(SummaryLogs[2].timestamp)

C15_OneIntervalTotals ==
    OneInterval =>
        \A tz \in TimeZones :
            LET worked == SummaryLogs[2].timestamp - SummaryLogs[1].timestamp
                day == dateKeyOf(SummaryLogs[1].timestamp, resetHour, tz)
            IN /\ last.body[tz].daily = <<[key |-> day, totalMs |-> worked]>>
               /\ Len(last.body[tz].weekly) = 1
               /\ last.body[tz].weekly[1].totalMs = worked
               /\ Len(last.body[tz].monthly) = 1
               /\ last.body[tz].monthly[1].totalMs = worked
               /\ last.body[tz].total = worked

C15_Witness ==
    /\ OneInterval
    /\ getHours(SummaryLogs[1].timestamp) = 9
    /\ getHours(SummaryLogs[2].timestamp) = 17
    /\ \A tz \in TimeZones : last.body[tz].daily[1].totalMs = 8

----------------------------------------------------------------------------
(* C16: every daily total is added to the weekly total keyed by the      *)
(* Monday on or before its date (six days earlier for a Sunday, the date *)
(* itself for a Monday) and to the monthly total keyed by the month of   *)
(* its date, and to no other week or month.                              *)
MondayOnOrBefore(dateStr) == dateStr - ((dateStr + 33 + 6) % 7)
KeysOf(entries) == {entries[i].key : i \in 1..Len(entries)}
DaysOfWeek(entries, monday) ==
    SelectSeq(entries, LAMBDA e : MondayOnOrBefore(e.key) = monday)
DaysOfMonth(entries, month) ==
    SelectSeq(entries, LAMBDA e : monthOf(e.key) = month)
TotalAt(entries, key) ==
    SumOfEntries(SelectSeq(entries, LAMBDA e : e.key = key))

C16_WeekAndMonthKeys ==
    Summarized =>
        \A tz \in TimeZones :
            LET body == last.body[tz]
            IN /\ KeysOf(body.weekly)
                    = {MondayOnOrBefore(d) : d \in KeysOf(body.daily)}
               /\ \A w \in KeysOf(body.weekly) :
                      TotalAt(body.weekly, w)
                        = SumOfEntries(DaysOfWeek(body.daily, w))
               /\ KeysOf(body.monthly)
                    = {monthOf(d) : d \in KeysOf(body.daily)}
               /\ \A m \in KeysOf(body.monthly) :
                      TotalAt(body.monthly, m)
                        = SumOfEntries(DaysOfMonth(body.daily, m))

----------------------------------------------------------------------------
(* C17: an interval still open when the scan ends adds nothing to any    *)
(* daily, weekly, monthly or grand total: the summary of a log whose     *)
(* scan ends open has the totals of the log cut before the entry that    *)
(* opened the interval, so a work_start or break_end appended to a log   *)
(* whose intervals are all closed changes no total.                      *)
SameEntries(a, b) ==
    \A key \in KeysOf(a) \cup KeysOf(b) : TotalAt(a, key) = TotalAt(b, key)

SameSummary(a, b) ==
    /\ a.total = b.total
    /\ SameEntries(a.daily, b.daily)
    /\ SameEntries(a.weekly, b.weekly)
    /\ SameEntries(a.monthly, b.monthly)

OpenSince(n, tz) ==
    /\ ~IsOpen(n - 1, tz)
    /\ \A i \in n..Len(SummaryLogs) : IsOpen(i, tz)

C17_OpenIntervalUncounted ==
    Summarized =>
        \A tz \in TimeZones, n \in 1..Len(SummaryLogs) :
            OpenSince(n, tz) =>
                SameSummary(last.body[tz],
                            SummaryOf(SubSeq(SummaryLogs, 1, n - 1), tz))

C17_Witness ==
    /\ Summarized
    /\ Types(SummaryLogs) = <<"work_start", "work_end", "break_end">>
    /\ \A tz \in TimeZones :
          /\ OpenSince(3, tz)
          /\ Len(last.body[tz].daily) = 2
          /\ last.body[tz].total
               = SummaryLogs[2].timestamp - SummaryLogs[1].timestamp

----------------------------------------------------------------------------
(* C18: a work_start or break_end met while an interval is open leaves   *)
(* the open instant and every total as they were; a work_end or          *)
(* break_start met while no interval is open leaves every total as it    *)
(* was and no interval open; the request is still answered 200.          *)
C18_IgnoresMisplacedEntries ==
    Summarized =>
        /\ last.code = 200
        /\ \A tz \in TimeZones, n \in 1..Len(SummaryLogs) :
              /\ (Opener(n) /\ IsOpen(n - 1, tz)) =>
                    /\ Scan(n, tz).lastStartTime = Scan(n - 1, tz).lastStartTime
                    /\ SameTotals(Scan(n, tz).dailyTotals,
                                  Scan(n - 1, tz).dailyTotals)
              /\ (Closer(n) /\ ~IsOpen(n - 1, tz)) =>
                    /\ Scan(n, tz).lastStartTime = <<>>
                    /\ SameTotals(Scan(n, tz).dailyTotals,
                                  Scan(n - 1, tz).dailyTotals)

C18_Witness ==
    /\ Summarized
    /\ last.code = 200
    /\ Types(SummaryLogs)
         = <<"work_start", "break_end", "work_end", "break_start">>
    /\ \A tz \in TimeZones :
          last.body[tz].total
            = SummaryLogs[3].timestamp - SummaryLogs[1].timestamp

----------------------------------------------------------------------------
(* C19: GET /summary reconciles before it reads the log: when the actor  *)
(* is working or on break and the logical day of the request differs     *)
(* from that of the latest entry, the aggregated log holds the           *)
(* work_start of the new day.                                            *)
C19_SummaryReconciles ==
    (Summarized /\ last.pre \in {"working", "on_break"} /\ DayChanged) =>
        \E i \in 1..Len(ActorLogs) :
            ActorLogs[i] = Row(Actor, "work_start", newDayStartTime(last.now))

----------------------------------------------------------------------------
(* C20: two requests of one actor in flight at once leave a status and a *)
(* log that the two requests served one after the other, in one of the   *)
(* two orders, also leave.                                               *)
Serve(tables, userId, op, now) ==
    LET synth == ResetRows(userId, tables.status, tables.logs, now)
        mid == ResetStatus(tables.status, tables.logs, now)
    IN CASE op = "stamp" ->
              [status |-> StampStatus(mid),
               logs |-> tables.logs \o synth \o StampRows(userId, mid, now)]
         [] op = "clock_out" ->
              [status |-> ClockOutStatus(mid),
               logs |-> tables.logs \o synth \o ClockOutRows(userId, mid, now)]
         [] op = "status" ->
              [status |-> mid, logs |-> tables.logs \o synth]

Serial(first, second) ==
    LET a == requests.pending[first]
        b == requests.pending[second]
    IN Serve(Serve(requests.start, a.userId, a.op, a.now),
             b.userId, b.op, b.now)

Count(logs, row) == Cardinality({i \in 1..Len(logs) : logs[i] = row})

SameRows(a, b) ==
    /\ Len(a) = Len(b)
    /\ \A i \in 1..Len(a) : Count(a, a[i]) = Count(b, a[i])

BothDone == requests # <<>> /\ \A r \in RequestIds : At(r, "done")

C20_Serializable ==
    BothDone =>
        \E order \in {<<1, 2>>, <<2, 1>>} :
            LET serial == Serial(order[1], order[2])
                userId == requests.pending[1].userId
            IN /\ users[userId] = serial.status
               /\ SameRows(LogsOf(userId), serial.logs)

----------------------------------------------------------------------------
(* C21: a write that fails during stamp, clockOut or reconciliation      *)
(* leaves no half-made change: the tables are as they were when the      *)
(* request arrived, or as reconciliation as a whole left them; never a   *)
(* log entry without its status change or a status change without its    *)
(* log entry.                                                            *)
Reconciled(tables, userId, now) ==
    [status |-> ResetStatus(tables.status, tables.logs, now),
     logs |-> tables.logs \o ResetRows(userId, tables.status, tables.logs, now)]

C21_NoPartialWrite ==
    \A r \in FailingIds :
        At(r, "failed") =>
            LET req == requests.pending[r]
                tables == [status |-> users[req.userId],
                           logs |-> LogsOf(req.userId)]
            IN \/ tables = requests.start
               \/ tables = Reconciled(requests.start, req.userId, req.now)

----------------------------------------------------------------------------
(* C22: a stamp, clockOut or getStatus request for an id that is not     *)
(* registered is answered 404 and changes nothing: the id stays          *)
(* unregistered in the user table, no entry is appended, and every other *)
(* actor's status and log stay as they were.                             *)
C22_NotFoundChangesNothing ==
    [][(/\ last' # last
        /\ last'.op \in Ops
        /\ users[last'.userId] = NoUser)
          => /\ last'.code = 404
             /\ users' = users
             /\ attendanceLogs' = attendanceLogs]_vars

C22_Witness ==
    /\ last.op = "stamp"
    /\ last.code = 404
    /\ users[Actor] = NoUser
    /\ \E u \in UserIds : users[u] = "working" /\ LogsOf(u) # <<>>

----------------------------------------------------------------------------
(* C23: the log only grows: after any stamp, clockOut, getStatus or      *)
(* summarize request every actor's log begins with the entries it held   *)
(* before, each with the kind and timestamp it had.                      *)
IsPrefix(a, b) == Len(a) <= Len(b) /\ SubSeq(b, 1, Len(a)) = a

C23_AppendOnly ==
    [][\A u \in UserIds : IsPrefix(LogsOf(u), LogsOf(u)')]_vars

C23_Witness ==
    /\ last.op = "clock_out"
    /\ last.code = 200
    /\ last.midlen = last.prelen + 1
    /\ Len(ActorLogs) = last.prelen + 2
    /\ last.prelen >= 1

----------------------------------------------------------------------------
(* C24: a stamp, clockOut, getStatus or summarize request of one actor   *)
(* leaves the status and the log of every other actor as they were,      *)
(* however the requests of the two actors alternate.                     *)
C24_OtherActorsUntouched ==
    [][last' # last =>
          \A u \in UserIds \ {last'.userId} :
              /\ users'[u] = users[u]
              /\ LogsOf(u)' = LogsOf(u)]_vars

C24_Witness ==
    /\ last.op = "stamp"
    /\ last.code = 200
    /\ Len(ActorLogs) = last.prelen + 1
    /\ \E u \in UserIds \ {Actor} :
          users[u] = "on_break" /\ Len(LogsOf(u)) = 2

----------------------------------------------------------------------------
(* C25: the total sent by POST /notify for a user who is working is the  *)
(* closed-interval total of the current logical day plus the time from   *)
(* the effective start to now, where the effective start is the start of *)
(* the open interval, raised to the current logical day's reset instant  *)
(* when the interval began earlier; nothing is added when now is not     *)
(* after the effective start.                                            *)

Notified == last.op = "notify" /\ last.pre # NoUser
TodayKey(tz) == dateKeyOf(last.now, resetHour, tz)
TodayReset == getDate(getLogicalDate(last.now, resetHour)) * 24 + resetHour
ClosedToday(tz) == Get(Scan(Len(SummaryLogs), tz).dailyTotals, TodayKey(tz))
OpenStart(tz) == Scan(Len(SummaryLogs), tz).lastStartTime[1]
EffectiveStart(tz) ==
    IF OpenStart(tz) < TodayReset THEN TodayReset ELSE OpenStart(tz)

C25_AsOfNow ==
    (Notified /\ users[Actor] = "working") =>
        \A tz \in TimeZones :
            /\ IsOpen(Len(SummaryLogs), tz)
            /\ last.body[tz] =
                   ClosedToday(tz)
                     + (IF last.now > EffectiveStart(tz)
                        THEN last.now - EffectiveStart(tz) ELSE 0)

----------------------------------------------------------------------------
----------------------------------------------------------------------------
(* C26: the daily report sent right after a successful clock-out of a    *)
(* working user has, in today's total, the time of the work session the  *)
(* clock-out ended, at least the part of it since today's reset instant, *)
(* also when the session began before that instant.                      *)

ClockedOut == last.op = "clock_out" /\ last.code = 200 /\ last.mid = "working"
ScanSession(tz) ==
    LET logs == OrderByTimestamp(SubSeq(ActorLogs, 1, Len(ActorLogs) - 1))
    IN AggScan(logs, Len(logs), resetHour, tz)
SessionStart(tz) == ScanSession(tz).lastStartTime[1]
SessionToday(tz) ==
    LET start == IF SessionStart(tz) < TodayReset THEN TodayReset
                 ELSE SessionStart(tz)
    IN IF last.now > start THEN last.now - start ELSE 0

C26_ReportIncludesSession ==
    ClockedOut =>
        \A tz \in TimeZones :
            ScanSession(tz).lastStartTime # <<>> =>
                last.body[tz] >= SessionToday(tz)

----------------------------------------------------------------------------
----------------------------------------------------------------------------
(* C27: an actor comes into existence only by a login, with status       *)
(* unregistered and an empty log; a login of an existing actor (a step   *)
(* that serves no request) leaves every existing actor's status and log  *)
(* as they were, whatever the status is.                                 *)

C27_LoginCreatesOnly ==
    [][\A u \in UserIds :
          /\ (users[u] = NoUser /\ users'[u] # NoUser) =>
                 /\ users'[u] = "unregistered"
                 /\ LogsOf(u)' = <<>>
                 /\ last' = last
          /\ (last' = last /\ users[u] # NoUser) =>
                 /\ users'[u] = users[u]
                 /\ LogsOf(u)' = LogsOf(u)]_vars

C27_Witness ==
    \E u, v \in UserIds :
        /\ users[u] = "unregistered" /\ LogsOf(u) = <<>> /\ last.userId = v
        /\ users[v] = "on_break" /\ Len(LogsOf(v)) = 2

----------------------------------------------------------------------------
----------------------------------------------------------------------------
(* C28: no entry appended by a request, synthetic reconciliation entries *)
(* included, has a timestamp later than the request's now, and so, the   *)
(* requests being served one at a time with non-decreasing now, a        *)
(* user's entries stand in the log in ascending timestamp order.         *)

C28_AppendedInTimestampOrder ==
    Served =>
        /\ \A i \in 1..Len(Added) : Added[i].timestamp <= last.now
        /\ \A i, j \in 1..Len(ActorLogs) :
               i < j => ActorLogs[i].timestamp <= ActorLogs[j].timestamp

----------------------------------------------------------------------------
----------------------------------------------------------------------------
(* C29: when a successful clock-out ends a log whose entries all lie in  *)
(* the logical day of the clock-out, the aggregated total of that day    *)
(* is the time the status was working, that is the time after each       *)
(* work_start or break_end up to the next entry, and no other day has a  *)
(* total; the time after a break_start is not counted.                   *)

OneDayLog ==
    /\ last.op = "clock_out" /\ last.code = 200
    /\ \A i \in 1..Len(ActorLogs) :
           LogicalDay(ActorLogs[i].timestamp) = LogicalDay(last.now)

RECURSIVE TimeWorking(_, _)
TimeWorking(logs, n) ==
    IF n <= 1 THEN 0
    ELSE TimeWorking(logs, n - 1)
           + (IF logs[n - 1].type \in {"work_start", "break_end"}
              THEN logs[n].timestamp - logs[n - 1].timestamp ELSE 0)

RECURSIVE TimeOnBreak(_, _)
TimeOnBreak(logs, n) ==
    IF n <= 1 THEN 0
    ELSE TimeOnBreak(logs, n - 1)
           + (IF logs[n - 1].type = "break_start"
              THEN logs[n].timestamp - logs[n - 1].timestamp ELSE 0)

C29_TotalIsWorkingTime ==
    OneDayLog =>
        \A tz \in TimeZones :
            LET dailyTotals == calculateLogsDuration(SummaryLogs, resetHour, tz)
            IN /\ Get(dailyTotals, TodayKey(tz))
                    = TimeWorking(ActorLogs, Len(ActorLogs))
               /\ \A key \in DOMAIN dailyTotals :
                      key # TodayKey(tz) => dailyTotals[key] = 0

C29_Witness ==
    /\ OneDayLog
    /\ TimeWorking(ActorLogs, Len(ActorLogs)) > 0
    /\ TimeOnBreak(ActorLogs, Len(ActorLogs)) > 0

----------------------------------------------------------------------------
----------------------------------------------------------------------------
(* C30: a status stops being unregistered only by a POST /stamp of that  *)
(* user, and becomes on_break only by a POST /stamp of that user served  *)
(* in status working; status, clock-out and summary requests and day     *)
(* changes leave unregistered as it is, and reconciliation never leaves  *)
(* on_break where it did not find it.                                    *)

C30_OnlyStampStartsAndBreaks ==
    [][\A u \in UserIds :
          /\ (users[u] = "unregistered" /\ users'[u] # "unregistered") =>
                 /\ last'.op = "stamp" /\ last'.userId = u
                 /\ last'.mid = "unregistered"
          /\ (users[u] # "on_break" /\ users'[u] = "on_break") =>
                 /\ last'.op = "stamp" /\ last'.userId = u
                 /\ last'.mid = "working"
          /\ (last' # last /\ last'.userId = u /\ last'.mid = "on_break") =>
                 last'.pre = "on_break"]_vars

C30_Witness ==
    /\ last.op \in {"status", "clock_out", "summary"}
    /\ last.pre = "unregistered" /\ users[Actor] = "unregistered"
    /\ DayChanged

----------------------------------------------------------------------------
----------------------------------------------------------------------------
(* C31: a run of the migration after an earlier run on the same file     *)
(* adds no entry to the log, and after any run the user's log holds at   *)
(* most one entry for each type and timestamp that occurs in the file.   *)

Migrated == last.op = "migrate"
FileLog == probe[1].attendanceLog
EntriesFor(log) ==
    {i \in 1..Len(ActorLogs) :
        /\ ActorLogs[i].type = log.type
        /\ ActorLogs[i].timestamp = parseTimestamp(log.timestamp)}

C31_ImportIdempotent ==
    Migrated =>
        /\ probe[1].runs >= 2 => Added = <<>>
        /\ \A n \in 1..Len(FileLog) :
               Cardinality(EntriesFor(FileLog[n])) <= 1

----------------------------------------------------------------------------
----------------------------------------------------------------------------
(* C32: GET /auth/me/:state hands a user out only for a state value      *)
(* that a login callback recorded, not handed out since, and not later   *)
(* than five minutes after that login; and it does hand the user out     *)
(* while the latest login with that state value is less than five        *)
(* minutes old and not handed out, whatever timers of earlier logins     *)
(* have run.                                                             *)

Queried(state) == last'.op = "me" /\ last'.body = <<state>>

C32_RedeemOnceUntilExpiry ==
    [][\A state \in LoginStateValues :
          Queried(state) =>
              /\ last'.code = 200 =>
                     /\ probe[state].issued >= 0
                     /\ ~probe[state].redeemed
                     /\ last'.now <= probe[state].issued + ExpiryMinutes
              /\ (/\ probe[state].issued >= 0
                  /\ ~probe[state].redeemed
                  /\ last'.now < probe[state].issued + ExpiryMinutes)
                     => last'.code = 200]_vars

============================================================================
